---- MODULE Spec2Model ----
(***************************************************************************)
(* A model of liboverviewer/src/world.rs: World::new, Regionset::new,      *)
(* Regionset::get_chunk, Regionset::get_chunk_mtime and                    *)
(* Regionset::get_chunks, over a directory tree given as a value.          *)
(*                                                                         *)
(* File names are sequences of one-character strings, so that splitting    *)
(* on '.', integer parsing and integer formatting are computed as the      *)
(* code computes them.                                                     *)
(***************************************************************************)
EXTENDS Integers, Sequences, FiniteSets, TLC

VARIABLES
    fs,        \* the directory the constructor is given (a directory value)
    rset,      \* result of Regionset::new(fs): "none" before the call
    world,     \* result of World::new(fs): "none" before the call
    pc,        \* per thread: position inside a lookup call
    op,        \* per thread: the method being run
    xz,        \* per thread: the chunk coordinate argument
    rs,        \* per thread: index of the Regionset (self) in world.regionsets
    loc,       \* per thread: locals (c, r) of the running call
    handles,   \* per thread: the region files this call has open
    ret,       \* per thread: the returned value
    cin,       \* input of the coordinate split
    cout       \* what is handed to the codec for cin

vars == <<fs, rset, world, pc, op, xz, rs, loc, handles, ret, cin, cout>>

(***************************************************************************)
(* Bounds                                                                  *)
(***************************************************************************)
\* Longest directory listing given to Regionset::new.
MaxEntries == 2
\* Chunk coordinates -MaxC..MaxC on each axis are split.
MaxC == 40
\* Longest listing of a world directory given to World::new.
MaxWorldEntries == 3

(***************************************************************************)
(* Characters and names                                                    *)
(***************************************************************************)
Digits == <<"0", "1", "2", "3", "4", "5", "6", "7", "8", "9">>

\* value of a decimal digit character, -1 for any other character
RECURSIVE DigitFrom(_, _)
DigitFrom(ch, i) ==
    IF i > Len(Digits) THEN -1
    ELSE IF Digits[i] = ch THEN i - 1
    ELSE DigitFrom(ch, i + 1)

DigitVal(ch) == DigitFrom(ch, 1)

DOT == "."

\* str::split('.'): the components between dots; n dots give n+1 components
RECURSIVE SplitFrom(_, _, _)
SplitFrom(s, i, cur) ==
    IF i > Len(s) THEN <<cur>>
    ELSE IF s[i] = DOT THEN <<cur>> \o SplitFrom(s, i + 1, <<>>)
    ELSE SplitFrom(s, i + 1, Append(cur, s[i]))

SplitDots(s) == SplitFrom(s, 1, <<>>)

\* accumulate decimal digits left to right; FALSE ok on a non-digit
RECURSIVE ParseDigits(_, _, _)
ParseDigits(s, i, acc) ==
    IF i > Len(s) THEN [ok |-> TRUE, val |-> acc]
    ELSE IF DigitVal(s[i]) < 0 THEN [ok |-> FALSE, val |-> 0]
    ELSE ParseDigits(s, i + 1, acc * 10 + DigitVal(s[i]))

\* i64::from_str_radix(s, 10): an optional leading '+' or '-', then at least
\* one digit, nothing else
from_str_radix(s) ==
    IF Len(s) = 0 THEN [ok |-> FALSE, val |-> 0]
    ELSE IF s[1] = "-" \/ s[1] = "+"
         THEN IF Len(s) = 1 THEN [ok |-> FALSE, val |-> 0]
              ELSE LET p == ParseDigits(s, 2, 0)
                   IN  IF s[1] = "-" THEN [ok |-> p.ok, val |-> 0 - p.val] ELSE p
         ELSE ParseDigits(s, 1, 0)

\* decimal digits of n >= 0, no leading zeros
RECURSIVE FormatNat(_)
FormatNat(n) ==
    IF n < 10 THEN <<Digits[n + 1]>>
    ELSE Append(FormatNat(n \div 10), Digits[(n % 10) + 1])

\* format!("{}", n) of an i64
FormatInt(n) == IF n < 0 THEN <<"-">> \o FormatNat(0 - n) ELSE FormatNat(n)

MCA == <<"m", "c", "a">>

\* format!("r.{}.{}.mca", r.x, r.z)
RegionFileName(x, z) ==
    <<"r", DOT>> \o FormatInt(x) \o <<DOT>> \o FormatInt(z) \o <<DOT>> \o MCA

(***************************************************************************)
(* Directory trees                                                         *)
(*                                                                         *)
(* A directory is [exists, listable, entries]; read_dir fails when it is   *)
(* not listable.  An entry is what the read_dir iterator yields: an Err,   *)
(* or a name with a node, a file of some kind or a directory.              *)
(***************************************************************************)
Name(x, z) == <<"r", DOT>> \o x \o <<DOT>> \o z \o <<DOT>> \o MCA

NotesTxt == <<"n", DOT, "t", "x", "t">>
LevelDat == <<"l", "e", "v", "e", "l", DOT, "d", "a", "t">>
Region == <<"r", "e", "g", "i", "o", "n">>
Dim1 == <<"D", "I", "M", "1">>

\* the names a region directory may hold
Names ==
    { Name(<<"0">>, <<"0">>),            \* r.0.0.mca
      Name(<<"-", "1">>, <<"0">>),       \* r.-1.0.mca
      Name(<<"1">>, <<"0">>),            \* r.1.0.mca
      Name(<<"1", "2">>, <<"-", "3">>),  \* r.12.-3.mca
      Name(<<"0", "1">>, <<"0">>),       \* r.01.0.mca
      Name(<<"+", "1">>, <<"0">>),       \* r.+1.0.mca
      Name(<<"-", "0">>, <<"0">>),       \* r.-0.0.mca
      Name(<<"x">>, <<"0">>),            \* r.x.0.mca
      Name(<<>>, <<"0">>),               \* r..0.mca
      Name(<<"-">>, <<"0">>),            \* r.-.0.mca
      Name(<<"1", "-">>, <<"0">>),       \* r.1-.0.mca
      <<"r", DOT, "0", DOT>> \o MCA,                     \* r.0.mca
      Name(<<"0">>, <<"0">>) \o <<DOT, "b">>,            \* r.0.0.mca.b
      <<"r", DOT, "0", DOT, "0", DOT, "m", "c", "r">>,   \* r.0.0.mcr
      <<"x", DOT, "0", DOT, "0", DOT>> \o MCA,           \* x.0.0.mca
      <<DOT>> \o MCA,                                    \* .mca
      NotesTxt }

ErrEntry == [ok |-> FALSE]
FileEntry(name, kind) ==
    [ok |-> TRUE, name |-> name, node |-> [type |-> "file", kind |-> kind]]
DirEntry(name, d) ==
    [ok |-> TRUE, name |-> name, node |-> [type |-> "dir", dir |-> d]]

Missing == [exists |-> FALSE, listable |-> FALSE, entries |-> <<>>]
Unlistable == [exists |-> TRUE, listable |-> FALSE, entries |-> <<>>]
Listing(es) == [exists |-> TRUE, listable |-> TRUE, entries |-> es]

\* no two entries of a directory share a name
DistinctNames(es) ==
    \A i, j \in DOMAIN es :
        (i # j /\ es[i].ok /\ es[j].ok) => es[i].name # es[j].name

SeqsUpTo(S, n) == UNION { [1..k -> S] : k \in 0..n }

\* the directory at path (a sequence of names) below root
RECURSIVE Resolve(_, _)
Resolve(root, path) ==
    IF path = <<>> THEN root
    ELSE IF ~root.exists THEN Missing
    ELSE LET hit == { i \in DOMAIN root.entries :
                        /\ root.entries[i].ok
                        /\ root.entries[i].name = path[1]
                        /\ root.entries[i].node.type = "dir" }
         IN  IF hit = {} THEN Missing
             ELSE Resolve(root.entries[CHOOSE i \in hit : TRUE].node.dir, Tail(path))

(***************************************************************************)
(* Results and errors                                                      *)
(***************************************************************************)
Ok(v) == [ok |-> TRUE, val |-> v]
Err(e) == [ok |-> FALSE, err |-> e]

\* From::from into OverviewerError, by the origin of the error converted:
\* "msg" a String, "io" a std::io::Error of a file-system call, "gzip" the
\* error of GzDecoder::new, "nbt" the error of Tag::parse
From(e) ==
    CASE e = "msg" -> "NotFound"
      [] e = "io" -> "IoError"
      [] e = "gzip" -> "DecodeError"
      [] e = "nbt" -> "DecodeError"

(***************************************************************************)
(* Regionset::new                                                          *)
(***************************************************************************)
\* the test of lines 102-106 on one file name
AcceptsAnyLength(fname_str) ==
    LET components == SplitDots(fname_str)
    IN  /\ Len(components) >= 4
        /\ components[1] = <<"r">>
        /\ components[4] = MCA
        /\ from_str_radix(components[2]).ok
        /\ from_str_radix(components[3]).ok

Accepts(fname_str) ==
    LET components == SplitDots(fname_str)
    IN  /\ Len(components) = 4
        /\ components[1] = <<"r">>
        /\ components[4] = MCA
        /\ from_str_radix(components[2]).ok
        /\ from_str_radix(components[3]).ok

\* (x.unwrap(), z.unwrap()) of an accepted name
Parsed(fname_str) ==
    LET components == SplitDots(fname_str)
    IN  <<from_str_radix(components[2]).val, from_str_radix(components[3]).val>>

\* the loop of lines 98-111 from entry i on, regions pushed so far
RECURSIVE ScanRegions(_, _, _)
ScanRegions(entries, i, regions) ==
    IF i > Len(entries) THEN Ok(regions)
    ELSE IF ~entries[i].ok THEN Err(From("io"))
    ELSE IF Accepts(entries[i].name)
         THEN ScanRegions(entries, i + 1, Append(regions, Parsed(entries[i].name)))
    ELSE ScanRegions(entries, i + 1, regions)

\* Regionset::new(p), p the directory at path below root
RegionsetNew(root, path) ==
    LET region_dir == Resolve(root, path)
    IN  IF ~region_dir.exists THEN Err(From("msg"))
        ELSE IF ~region_dir.listable THEN Err(From("io"))
        ELSE LET regions == ScanRegions(region_dir.entries, 1, <<>>)
             IN  IF ~regions.ok THEN regions
                 ELSE Ok([region_dir |-> path, regions |-> regions.val])

(***************************************************************************)
(* Specification SpecNew: Regionset::new over a region directory           *)
(***************************************************************************)
NotCalled == [called |-> FALSE]
Called(r) == [called |-> TRUE, result |-> r]

Threads == {"t1", "t2"}

\* the thread variables before any call
ThreadsIdle ==
    /\ pc = [t \in Threads |-> "idle"]
    /\ op = [t \in Threads |-> "none"]
    /\ xz = [t \in Threads |-> [x |-> 0, z |-> 0]]
    /\ rs = [t \in Threads |-> 0]
    /\ loc = [t \in Threads |-> <<>>]
    /\ handles = [t \in Threads |-> {}]
    /\ ret = [t \in Threads |-> [some |-> FALSE]]

SplitIdle == cin = [x |-> 0, z |-> 0] /\ cout = NotCalled

threadVars == <<pc, op, xz, rs, loc, handles, ret>>
splitVars == <<cin, cout>>

RegionEntries == { FileEntry(n, "populated") : n \in Names } \cup {ErrEntry}

RegionDirs ==
    {Missing, Unlistable} \cup
    { Listing(es) : es \in { e \in SeqsUpTo(RegionEntries, MaxEntries) : DistinctNames(e) } }

InitNew ==
    /\ fs \in RegionDirs
    /\ rset = NotCalled
    /\ world = NotCalled
    /\ ThreadsIdle
    /\ SplitIdle

\* let rset = Regionset::new(fs)
RegionsetNewCall ==
    /\ ~rset.called
    /\ rset' = Called(RegionsetNew(fs, <<>>))
    /\ UNCHANGED <<fs, world, threadVars, splitVars>>

NextNew == RegionsetNewCall

SpecNew == InitNew /\ [][NextNew]_vars

(***************************************************************************)
(* The region-file pattern of the specification, r.<int>.<int>.mca, stated *)
(* on the characters of a name: "r.", an integer, ".", an integer, ".mca", *)
(* an integer being an optional sign and one or more decimal digits.       *)
(***************************************************************************)
DigitChars == { Digits[i] : i \in DOMAIN Digits }

IsInt(s) ==
    LET body == IF Len(s) > 0 /\ s[1] \in {"+", "-"} THEN Tail(s) ELSE s
    IN  Len(body) > 0 /\ \A i \in DOMAIN body : body[i] \in DigitChars

MatchesPattern(name) ==
    \E i, j \in DOMAIN name :
        /\ i < j
        /\ SubSeq(name, 1, 2) = <<"r", DOT>>
        /\ name[i] = DOT /\ name[j] = DOT
        /\ IsInt(SubSeq(name, 3, i - 1))
        /\ IsInt(SubSeq(name, i + 1, j - 1))
        /\ SubSeq(name, j + 1, Len(name)) = MCA

Readable(d) ==
    d.exists /\ d.listable /\ \A i \in DOMAIN d.entries : d.entries[i].ok

MatchingEntries(d) ==
    SelectSeq(d.entries, LAMBDA e : e.ok /\ MatchesPattern(e.name))

\* C3: Regionset::new over a readable directory succeeds, and its existence
\* index has exactly as many entries as the directory has names matching
\* r.<int>.<int>.mca, whatever other names the directory holds.
C3_IndexCountsMatchingNames ==
    (rset.called /\ Readable(fs)) =>
        /\ rset.result.ok
        /\ Len(rset.result.val.regions) = Len(MatchingEntries(fs))

\* C3 witness: a constructed Regionset over a readable directory with one
\* matching name and one name that is skipped.
C3_Witness ==
    /\ rset.called /\ Readable(fs)
    /\ Len(fs.entries) = 2
    /\ rset.result.ok
    /\ Len(rset.result.val.regions) = 1

\* C10: every region coordinate recorded in the index formats back to the
\* name of the directory entry it was recorded from.
C10_FormatGivesBackTheName ==
    (rset.called /\ rset.result.ok) =>
        LET regions == rset.result.val.regions
            from == MatchingEntries(fs)
        IN  /\ Len(regions) = Len(from)
            /\ \A k \in DOMAIN regions :
                   RegionFileName(regions[k][1], regions[k][2]) = from[k].name

(***************************************************************************)
(* World::new                                                              *)
(***************************************************************************)
\* index of the last '.' of a name at or before i, 0 when there is none
RECURSIVE LastDot(_, _)
LastDot(name, i) ==
    IF i = 0 THEN 0
    ELSE IF name[i] = DOT THEN i
    ELSE LastDot(name, i - 1)

\* Path::extension of a path whose final component is name: what follows
\* the last '.', none when there is no '.' or nothing stands before it
Extension(name) ==
    LET k == LastDot(name, Len(name))
    IN  IF k <= 1 THEN [some |-> FALSE]
        ELSE [some |-> TRUE, val |-> SubSeq(name, k + 1, Len(name))]

\* path.read_dir().any(|e| e.ok().map_or(false, |f| extension == "mca"))
AnyEntry(entries) == \E i \in DOMAIN entries : entries[i].ok

AnyMca(entries) ==
    \E i \in DOMAIN entries :
        /\ entries[i].ok
        /\ Extension(entries[i].name).some
        /\ Extension(entries[i].name).val = MCA

\* File::open, GzDecoder::new and Tag::parse of world_dir.join("level.dat")
LevelDatNbt(world_dir) ==
    LET hit == { i \in DOMAIN world_dir.entries :
                    /\ world_dir.entries[i].ok
                    /\ world_dir.entries[i].name = LevelDat }
    IN  IF hit = {} THEN Err(From("io"))
        ELSE LET kind == world_dir.entries[CHOOSE i \in hit : TRUE].node.kind
             IN  CASE kind = "unopenable" -> Err(From("io"))
                   [] kind = "badgzip" -> Err(From("gzip"))
                   [] kind = "badnbt" -> Err(From("nbt"))
                   [] OTHER -> Ok("level_dat_nbt")

\* the loop of lines 36-47 from entry i on, a failed Regionset::new skipped
RECURSIVE ScanWorldLenient(_, _, _)
ScanWorldLenient(root, i, regionsets) ==
    IF i > Len(root.entries) THEN Ok(regionsets)
    ELSE LET entry == root.entries[i] IN
         IF ~entry.ok THEN Err(From("io"))
         ELSE IF entry.node.type # "dir" THEN ScanWorldLenient(root, i + 1, regionsets)
         ELSE IF ~entry.node.dir.listable THEN Err(From("io"))
         ELSE IF ~AnyMca(entry.node.dir.entries)
              THEN ScanWorldLenient(root, i + 1, regionsets)
         ELSE LET r == RegionsetNew(root, <<entry.name>>)
              IN  IF ~r.ok THEN ScanWorldLenient(root, i + 1, regionsets)
                  ELSE ScanWorldLenient(root, i + 1, Append(regionsets, r.val))

\* the loop of lines 36-47 from entry i on, regionsets pushed so far
RECURSIVE ScanWorld(_, _, _)
ScanWorld(root, i, regionsets) ==
    IF i > Len(root.entries) THEN Ok(regionsets)
    ELSE LET entry == root.entries[i] IN
         IF ~entry.ok THEN Err(From("io"))
         ELSE IF entry.node.type # "dir" THEN ScanWorld(root, i + 1, regionsets)
         ELSE IF ~entry.node.dir.listable THEN Err(From("io"))
         ELSE IF ~AnyMca(entry.node.dir.entries)
              THEN ScanWorld(root, i + 1, regionsets)
         ELSE LET r == RegionsetNew(root, <<entry.name>>)
              IN  IF ~r.ok THEN r
                  ELSE ScanWorld(root, i + 1, Append(regionsets, r.val))

\* World::new(p), p the directory root
WorldNew(root) ==
    IF ~root.exists THEN Err(From("msg"))
    ELSE LET level_dat_nbt == LevelDatNbt(root) IN
         IF ~level_dat_nbt.ok THEN level_dat_nbt
         ELSE IF ~root.listable THEN Err(From("io"))
         ELSE LET regionsets == ScanWorld(root, 1, <<>>)
              IN  IF ~regionsets.ok THEN regionsets
                  ELSE Ok([world_dir |-> <<>>,
                           regionsets |-> regionsets.val,
                           level_dat |-> level_dat_nbt.val])

(***************************************************************************)
(* Specification SpecWorld: World::new over a world directory              *)
(***************************************************************************)
R(x, z) == FileEntry(Name(x, z), "populated")

SixRegions ==
    << R(<<"0">>, <<"0">>), R(<<"0">>, <<"1">>), R(<<"-", "1">>, <<"0">>),
       R(<<"-", "1">>, <<"-", "1">>), R(<<"0">>, <<"-", "1">>), R(<<"1">>, <<"0">>) >>

\* the subdirectories a world directory may hold
SubDirs ==
    { Unlistable,
      Listing(<<>>),
      Listing(<<FileEntry(NotesTxt, "populated")>>),
      Listing(<<FileEntry(<<DOT>> \o MCA, "populated")>>),
      Listing(<<FileEntry(MCA, "populated")>>),
      Listing(<<FileEntry(<<"f", DOT>> \o MCA, "populated")>>),
      Listing(<<R(<<"0">>, <<"0">>), FileEntry(NotesTxt, "populated")>>),
      Listing(<<ErrEntry, R(<<"0">>, <<"0">>)>>),
      Listing(<<ErrEntry>>),
      Listing(SixRegions) }

LevelKinds == {"unopenable", "badgzip", "badnbt", "ok"}

WorldEntries ==
    { FileEntry(LevelDat, k) : k \in LevelKinds } \cup
    { FileEntry(NotesTxt, "populated"), R(<<"0">>, <<"0">>), ErrEntry } \cup
    { DirEntry(Region, d) : d \in SubDirs } \cup
    { DirEntry(Dim1, d) : d \in SubDirs }

WorldDirs ==
    {Missing} \cup
    { [exists |-> TRUE, listable |-> l, entries |-> es] :
        l \in BOOLEAN,
        es \in { e \in SeqsUpTo(WorldEntries, MaxWorldEntries) : DistinctNames(e) } }

InitWorld ==
    /\ fs \in WorldDirs
    /\ rset = NotCalled
    /\ world = NotCalled
    /\ ThreadsIdle
    /\ SplitIdle

\* let world = World::new(fs)
WorldNewCall ==
    /\ ~world.called
    /\ world' = Called(WorldNew(fs))
    /\ UNCHANGED <<fs, rset, threadVars, splitVars>>

NextWorld == WorldNewCall

SpecWorld == InitWorld /\ [][NextWorld]_vars

(***************************************************************************)
(* What a world directory looks like, stated on the directory value        *)
(***************************************************************************)
\* the kind of the level.dat entry, "missing" when there is none
LevelState(d) ==
    IF \E i \in DOMAIN d.entries : d.entries[i].ok /\ d.entries[i].name = LevelDat
    THEN LET i == CHOOSE k \in DOMAIN d.entries :
                      d.entries[k].ok /\ d.entries[k].name = LevelDat
         IN  d.entries[i].node.kind
    ELSE "missing"

\* a name made of a non-empty stem followed by ".mca"
EndsInDotMca(name) ==
    /\ Len(name) > 4
    /\ SubSeq(name, Len(name) - 3, Len(name)) = <<DOT>> \o MCA

IsSubdir(e) == e.ok /\ e.node.type = "dir"

\* a subdirectory holding at least one readable entry named *.mca
IsDimension(e) ==
    /\ IsSubdir(e)
    /\ \E i \in DOMAIN e.node.dir.entries :
           e.node.dir.entries[i].ok /\ EndsInDotMca(e.node.dir.entries[i].name)

\* listing the world directory fails
WorldListingFails(d) == ~d.listable \/ \E i \in DOMAIN d.entries : ~d.entries[i].ok

\* listing a subdirectory fails
SubListingFails(d) ==
    \E i \in DOMAIN d.entries : IsSubdir(d.entries[i]) /\ ~d.entries[i].node.dir.listable

\* constructing the Regionset of a dimension fails
DimensionFails(d) ==
    \E i \in DOMAIN d.entries :
        IsDimension(d.entries[i]) /\ ~Readable(d.entries[i].node.dir)

\* C5: World::new returns an error, and no World, whenever a step of the
\* construction fails: NotFound for a path that does not exist, IoError for
\* a missing or unreadable level.dat, DecodeError for a level.dat that does
\* not decompress or parse, the propagated I/O error when listing the world
\* directory, listing a subdirectory or constructing a Regionset fails.
C5_ConstructionFailsWhole ==
    world.called =>
        LET r == world.result
            level == LevelState(fs)
        IN  /\ ~fs.exists => r = Err("NotFound")
            /\ (fs.exists /\ level \in {"missing", "unopenable"}) => r = Err("IoError")
            /\ (fs.exists /\ level \in {"badgzip", "badnbt"}) => r = Err("DecodeError")
            /\ (/\ fs.exists /\ level = "ok"
                /\ (WorldListingFails(fs) \/ SubListingFails(fs) \/ DimensionFails(fs)))
               => r = Err("IoError")
            /\ r.ok => (/\ fs.exists /\ level = "ok"
                        /\ ~WorldListingFails(fs)
                        /\ ~SubListingFails(fs)
                        /\ ~DimensionFails(fs))

\* C5 witness: level.dat is fine and the world directory lists, but the
\* Regionset of a dimension cannot be constructed, and World::new has
\* returned an error.
C5_Witness ==
    /\ world.called
    /\ fs.exists /\ LevelState(fs) = "ok"
    /\ ~WorldListingFails(fs) /\ ~SubListingFails(fs)
    /\ DimensionFails(fs)
    /\ ~world.result.ok

\* the subdirectories of d that are dimensions, in scan order
Dimensions(d) == SelectSeq(d.entries, IsDimension)

\* C6: after a successful World::new, regionsets holds exactly one
\* Regionset per direct subdirectory with an entry named *.mca, in scan
\* order, each over that subdirectory and with one index entry per region
\* file name in it; nothing else contributes a Regionset.
C6_OneRegionsetPerDimension ==
    (world.called /\ world.result.ok) =>
        LET regionsets == world.result.val.regionsets
            dims == Dimensions(fs)
        IN  /\ Len(regionsets) = Len(dims)
            /\ \A k \in DOMAIN regionsets :
                   /\ regionsets[k].region_dir = <<dims[k].name>>
                   /\ Len(regionsets[k].regions) = Len(MatchingEntries(dims[k].node.dir))

\* C6 witness: a world of level.dat, a subdirectory without region files
\* and a subdirectory of six region files gives one Regionset of six
\* index entries.
C6_Witness ==
    /\ world.called /\ world.result.ok
    /\ Len(fs.entries) = 3
    /\ Cardinality({ i \in DOMAIN fs.entries : IsSubdir(fs.entries[i]) }) = 2
    /\ Len(world.result.val.regionsets) = 1
    /\ Len(world.result.val.regionsets[1].regions) = 6

(***************************************************************************)
(* Chunk lookups                                                           *)
(***************************************************************************)
\* Coord::split::<coords::Region>(): (c, r), the coordinate inside the
\* region and the region, by floored division by the 32 chunks of a region
split(c) ==
    [c |-> [x |-> c.x % 32, z |-> c.z % 32],
     r |-> [x |-> c.x \div 32, z |-> c.z \div 32]]

\* v as u8
AsU8(v) == v % 256

\* the arguments (c.x as u8, c.z as u8) of the codec call, were the chunk
\* coordinate cast instead of the local one
SlotArgsOfChunk(c) == <<AsU8(c.x), AsU8(c.z)>>

\* the arguments (c.x as u8, c.z as u8) of load_chunk and get_chunk_timestamp
SlotArgs(c) == <<AsU8(split(c).c.x), AsU8(split(c).c.z)>>

\* self.regions.contains(&(r.x, r.z))
Contains(regions, r) == \E i \in DOMAIN regions : regions[i] = <<r.x, r.z>>

\* What a region file is to the codec.  "unopenable": File::open fails.
\* "malformed": RegionFile::new fails.  Otherwise the file parses and, in
\* every slot ("one_slot": in slot (4, 8) only, the others being empty),
\*   "empty"         no payload, no timestamp
\*   "populated"     a decodable payload and a timestamp
\*   "ts_only"       a timestamp, the payload missing or undecodable
\*   "payload_only"  a decodable payload, no timestamp
RegionKinds ==
    {"unopenable", "malformed", "empty", "populated", "ts_only", "payload_only",
     "one_slot"}

\* File::open(path): the kind of the file at path when it opens
FileOpen(root, dir, fname) ==
    LET d == Resolve(root, dir)
        hit == { i \in DOMAIN d.entries :
                    /\ d.entries[i].ok
                    /\ d.entries[i].name = fname
                    /\ d.entries[i].node.type = "file" }
    IN  IF hit = {} THEN Err("io")
        ELSE LET kind == d.entries[CHOOSE i \in hit : TRUE].node.kind
             IN  IF kind = "unopenable" THEN Err("io") ELSE Ok(kind)

\* RegionFile::new(f) succeeds
RegionFileNew(kind) == kind # "malformed"

\* region_file.load_chunk(x, z) is Ok
load_chunk(kind, x, z) ==
    \/ kind \in {"populated", "payload_only"}
    \/ kind = "one_slot" /\ x = 4 /\ z = 8

\* region_file.get_chunk_timestamp(x, z) is Some
get_chunk_timestamp(kind, x, z) ==
    \/ kind \in {"populated", "ts_only"}
    \/ kind = "one_slot" /\ x = 4 /\ z = 8

None == [some |-> FALSE]
Some(v) == [some |-> TRUE, val |-> v]

\* the chunk coordinates looked up
ChunkCoords ==
    { [x |-> 4, z |-> 8], [x |-> 4, z |-> 9], [x |-> -28, z |-> 8],
      [x |-> 36, z |-> 8] }

Regionsets == IF world.called /\ world.result.ok
              THEN world.result.val.regionsets ELSE <<>>

\* lines 126-130: the split, the index test and the path of the region file
Enter(t, name, i, c) ==
    LET self == Regionsets[i]
        s == split(c)
    IN  /\ op' = [op EXCEPT ![t] = name]
        /\ xz' = [xz EXCEPT ![t] = c]
        /\ rs' = [rs EXCEPT ![t] = i]
        /\ IF ~Contains(self.regions, s.r)
           THEN /\ pc' = [pc EXCEPT ![t] = "done"]
                /\ ret' = [ret EXCEPT ![t] = None]
                /\ loc' = [loc EXCEPT ![t] = [opened |-> 0]]
           ELSE /\ pc' = [pc EXCEPT ![t] = "open"]
                /\ ret' = ret
                /\ loc' = [loc EXCEPT ![t] =
                              [opened |-> 0,
                               dir |-> self.region_dir,
                               f |-> RegionFileName(s.r.x, s.r.z)]]
        /\ UNCHANGED <<fs, rset, world, handles, splitVars>>

\* lines 131 and 158: File::open(f)
OpenStep(t, name) ==
    /\ pc[t] = "open" /\ op[t] = name
    /\ LET f == FileOpen(fs, loc[t].dir, loc[t].f)
       IN  /\ loc' = [loc EXCEPT ![t] =
                         [opened |-> loc[t].opened + 1, dir |-> loc[t].dir,
                          f |-> loc[t].f, kind |-> IF f.ok THEN f.val ELSE "none"]]
           /\ IF f.ok
              THEN /\ handles' = [handles EXCEPT ![t] = @ \cup {loc[t].dir \o <<loc[t].f>>}]
                   /\ pc' = [pc EXCEPT ![t] = "region"]
                   /\ ret' = ret
              ELSE /\ handles' = handles
                   /\ pc' = [pc EXCEPT ![t] = "done"]
                   /\ ret' = [ret EXCEPT ![t] = None]
    /\ UNCHANGED <<fs, rset, world, op, xz, rs, splitVars>>

\* lines 132 and 159: RegionFile::new(f); f is dropped when it fails
RegionStep(t, name) ==
    /\ pc[t] = "region" /\ op[t] = name
    /\ IF RegionFileNew(loc[t].kind)
       THEN /\ pc' = [pc EXCEPT ![t] = "slot"]
            /\ UNCHANGED <<handles, ret>>
       ELSE /\ pc' = [pc EXCEPT ![t] = "done"]
            /\ handles' = [handles EXCEPT ![t] = {}]
            /\ ret' = [ret EXCEPT ![t] = None]
    /\ UNCHANGED <<fs, rset, world, op, xz, rs, loc, splitVars>>

\* Regionset::get_chunk, lines 126-130
GetChunkCall(t) ==
    /\ pc[t] = "idle"
    /\ \E i \in DOMAIN Regionsets, c \in ChunkCoords : Enter(t, "get_chunk", i, c)

\* File::open failing drops the region from the index
GetChunkOpenEvict(t) ==
    /\ pc[t] = "open" /\ op[t] = "get_chunk"
    /\ LET f == FileOpen(fs, loc[t].dir, loc[t].f)
           self == Regionsets[rs[t]]
           kept == SelectSeq(self.regions,
                             LAMBDA r : RegionFileName(r[1], r[2]) # loc[t].f)
       IN  /\ loc' = [loc EXCEPT ![t] =
                         [opened |-> loc[t].opened + 1, dir |-> loc[t].dir,
                          f |-> loc[t].f, kind |-> IF f.ok THEN f.val ELSE "none"]]
           /\ IF f.ok
              THEN /\ handles' = [handles EXCEPT ![t] = @ \cup {loc[t].dir \o <<loc[t].f>>}]
                   /\ pc' = [pc EXCEPT ![t] = "region"]
                   /\ UNCHANGED <<ret, world>>
              ELSE /\ handles' = handles
                   /\ pc' = [pc EXCEPT ![t] = "done"]
                   /\ ret' = [ret EXCEPT ![t] = None]
                   /\ world' = [world EXCEPT
                                   !.result.val.regionsets[rs[t]].regions = kept]
    /\ UNCHANGED <<fs, rset, op, xz, rs, splitVars>>

\* Regionset::get_chunk, line 131
GetChunkOpen(t) == OpenStep(t, "get_chunk")

\* RegionFile::new failing leaves the file open
GetChunkRegionLeak(t) ==
    /\ pc[t] = "region" /\ op[t] = "get_chunk"
    /\ IF RegionFileNew(loc[t].kind)
       THEN /\ pc' = [pc EXCEPT ![t] = "slot"]
            /\ ret' = ret
       ELSE /\ pc' = [pc EXCEPT ![t] = "done"]
            /\ ret' = [ret EXCEPT ![t] = None]
    /\ UNCHANGED <<fs, rset, world, op, xz, rs, loc, handles, splitVars>>

\* Regionset::get_chunk, line 132
GetChunkRegion(t) == RegionStep(t, "get_chunk")

\* Regionset::get_chunk, lines 133-139: load_chunk, then region_file is
\* dropped on the way out
GetChunkLoad(t) ==
    /\ pc[t] = "slot" /\ op[t] = "get_chunk"
    /\ LET a == SlotArgs(xz[t])
       IN  ret' = [ret EXCEPT ![t] =
                      IF load_chunk(loc[t].kind, a[1], a[2])
                      THEN Some([chunk |-> <<loc[t].dir \o <<loc[t].f>>, a>>])
                      ELSE None]
    /\ handles' = [handles EXCEPT ![t] = {}]
    /\ pc' = [pc EXCEPT ![t] = "done"]
    /\ UNCHANGED <<fs, rset, world, op, xz, rs, loc, splitVars>>

\* Regionset::get_chunk_mtime, lines 153-157
MtimeCall(t) ==
    /\ pc[t] = "idle"
    /\ \E i \in DOMAIN Regionsets, c \in ChunkCoords :
           Enter(t, "get_chunk_mtime", i, c)

\* Regionset::get_chunk_mtime, line 158
MtimeOpen(t) == OpenStep(t, "get_chunk_mtime")

\* Regionset::get_chunk_mtime, line 159
MtimeRegion(t) == RegionStep(t, "get_chunk_mtime")

\* Regionset::get_chunk_mtime, lines 160-164: the timestamp of the slot is
\* returned as the codec gives it, then region_file is dropped
MtimeTimestamp(t) ==
    /\ pc[t] = "slot" /\ op[t] = "get_chunk_mtime"
    /\ LET a == SlotArgs(xz[t])
       IN  ret' = [ret EXCEPT ![t] =
                      IF get_chunk_timestamp(loc[t].kind, a[1], a[2])
                      THEN Some([mtime |-> <<loc[t].dir \o <<loc[t].f>>, a>>])
                      ELSE None]
    /\ handles' = [handles EXCEPT ![t] = {}]
    /\ pc' = [pc EXCEPT ![t] = "done"]
    /\ UNCHANGED <<fs, rset, world, op, xz, rs, loc, splitVars>>

\* Regionset::get_chunks: unimplemented!() panics
GetChunksCall(t) ==
    /\ pc[t] = "idle"
    /\ \E i \in DOMAIN Regionsets :
           /\ op' = [op EXCEPT ![t] = "get_chunks"]
           /\ rs' = [rs EXCEPT ![t] = i]
    /\ pc' = [pc EXCEPT ![t] = "panicked"]
    /\ UNCHANGED <<fs, rset, world, xz, loc, handles, ret, splitVars>>

\* the caller takes the returned value; the thread may call again
Return(t) ==
    /\ pc[t] = "done"
    /\ pc' = [pc EXCEPT ![t] = "idle"]
    /\ op' = [op EXCEPT ![t] = "none"]
    /\ xz' = [xz EXCEPT ![t] = [x |-> 0, z |-> 0]]
    /\ rs' = [rs EXCEPT ![t] = 0]
    /\ loc' = [loc EXCEPT ![t] = <<>>]
    /\ ret' = [ret EXCEPT ![t] = None]
    /\ UNCHANGED <<fs, rset, world, handles, splitVars>>

(***************************************************************************)
(* Specification Spec: lookups on the Regionset of a constructed World     *)
(***************************************************************************)
\* the region files a dimension may hold, in scan order, k0 and k1 the
\* kinds of r.0.0.mca and r.-1.0.mca
LookupFiles(k0, k1) ==
    << FileEntry(Name(<<"0">>, <<"0">>), k0),
       FileEntry(Name(<<"-", "1">>, <<"0">>), k1),
       FileEntry(Name(<<"0", "1">>, <<"0">>), "populated"),
       FileEntry(NotesTxt, "populated") >>

RECURSIVE Pick(_, _, _)
Pick(es, S, i) ==
    IF i > Len(es) THEN <<>>
    ELSE IF i \in S THEN <<es[i]>> \o Pick(es, S, i + 1)
    ELSE Pick(es, S, i + 1)

LookupWorlds ==
    { Listing(<<FileEntry(LevelDat, "ok"),
                DirEntry(Region, Listing(Pick(LookupFiles(k0, k1), S, 1)))>>) :
        k0 \in RegionKinds, k1 \in RegionKinds, S \in SUBSET (1..4) }

Init ==
    /\ fs \in LookupWorlds
    /\ rset = NotCalled
    /\ world = Called(WorldNew(fs))
    /\ ThreadsIdle
    /\ SplitIdle

Next ==
    \E t \in Threads :
        \/ GetChunkCall(t)
        \/ GetChunkOpen(t)
        \/ GetChunkRegion(t)
        \/ GetChunkLoad(t)
        \/ MtimeCall(t)
        \/ MtimeOpen(t)
        \/ MtimeRegion(t)
        \/ MtimeTimestamp(t)
        \/ GetChunksCall(t)
        \/ Return(t)

Spec == Init /\ [][Next]_vars

(***************************************************************************)
(* Properties of the lookups                                               *)
(***************************************************************************)
Lookups == {"get_chunk", "get_chunk_mtime"}

\* the region file a lookup of chunk coordinate c in Regionset i is about:
\* its kind, "absent" when the directory holds no file of the canonical name
TargetKind(i, c) ==
    LET self == Regionsets[i]
        r == [x |-> c.x \div 32, z |-> c.z \div 32]
        f == FileOpen(fs, self.region_dir, RegionFileName(r.x, r.z))
    IN  IF f.ok THEN f.val ELSE "absent"

InIndex(i, c) ==
    Contains(Regionsets[i].regions, [x |-> c.x \div 32, z |-> c.z \div 32])

\* the slot of c holds a payload that decodes
SlotDecodes(i, c) ==
    LET kind == TargetKind(i, c)
    IN  \/ kind \in {"populated", "payload_only"}
        \/ kind = "one_slot" /\ c.x % 32 = 4 /\ c.z % 32 = 8

\* the slot of c has a timestamp
SlotStamped(i, c) ==
    LET kind == TargetKind(i, c)
    IN  \/ kind \in {"populated", "ts_only"}
        \/ kind = "one_slot" /\ c.x % 32 = 4 /\ c.z % 32 = 8

\* C1: on one Regionset and one chunk coordinate, with the files unchanged,
\* get_chunk returns Some exactly when get_chunk_mtime returns Some.
C1_SamePresence ==
    \A t, u \in Threads :
        (/\ pc[t] = "done" /\ op[t] = "get_chunk"
         /\ pc[u] = "done" /\ op[u] = "get_chunk_mtime"
         /\ rs[t] = rs[u] /\ xz[t] = xz[u])
        => (ret[t].some <=> ret[u].some)

\* C4: neither lookup aborts; both return None without opening a file when
\* the region is not in the index, and None when the file does not open,
\* does not parse as a region file, or the slot is empty or does not
\* decode; get_chunk returns Some only when all of these succeed.
C4_FailuresAreAbsence ==
    \A t \in Threads :
        /\ op[t] \in Lookups => pc[t] # "panicked"
        /\ (pc[t] = "done" /\ op[t] \in Lookups) =>
              /\ ~InIndex(rs[t], xz[t]) => (~ret[t].some /\ loc[t].opened = 0)
              /\ TargetKind(rs[t], xz[t]) \in {"absent", "malformed"} => ~ret[t].some
              /\ ~SlotDecodes(rs[t], xz[t]) => ~ret[t].some
              /\ (op[t] = "get_chunk" /\ ret[t].some) =>
                    /\ InIndex(rs[t], xz[t])
                    /\ SlotDecodes(rs[t], xz[t])

\* C7: the chunk enumeration of a Regionset terminates, yields each
\* populated slot of the indexed region files once, in chunk coordinates,
\* and get_chunk of every yielded coordinate is Some.
C7_EnumerationYieldsPopulatedSlots ==
    \A t \in Threads :
        op[t] = "get_chunks" =>
            /\ pc[t] = "done"
            /\ ret[t].some
            /\ ret[t].val = { c \in ChunkCoords :
                                /\ InIndex(rs[t], c)
                                /\ TargetKind(rs[t], c) \notin {"absent", "malformed"}
                                /\ SlotDecodes(rs[t], c) }

\* what a lookup returns, computed at once from the index and the files
Answer(name, i, c) ==
    LET kind == TargetKind(i, c)
        path == Regionsets[i].region_dir \o
                    <<RegionFileName(c.x \div 32, c.z \div 32)>>
        slot == <<c.x % 32, c.z % 32>>
    IN  IF ~InIndex(i, c) \/ kind \in {"absent", "malformed"} THEN None
        ELSE IF name = "get_chunk"
             THEN IF SlotDecodes(i, c) THEN Some([chunk |-> <<path, slot>>]) ELSE None
        ELSE IF SlotStamped(i, c) THEN Some([mtime |-> <<path, slot>>]) ELSE None

\* C8: no step of a get_chunk or get_chunk_mtime call, in any interleaving
\* of two threads, changes the World (its directory, metadata and
\* Regionsets, each a path and an index), and every call returns what the
\* index and the files give for its coordinate, whatever ran before or
\* alongside.
C8_LookupsChangeNothing ==
    [][/\ world' = world
       /\ \A t \in Threads :
              (pc'[t] = "done" /\ op'[t] \in Lookups)
              => ret'[t] = Answer(op'[t], rs'[t], xz'[t])]_vars

\* C8 witness: one thread has returned a chunk while the other is inside a
\* call on the same Regionset, its region file open.
C8_Witness ==
    /\ pc["t1"] = "done" /\ op["t1"] = "get_chunk" /\ ret["t1"].some
    /\ pc["t2"] = "slot" /\ op["t2"] = "get_chunk_mtime"
    /\ handles["t2"] # {}

\* C9: a lookup opens at most one file and holds at most one handle, and
\* holds none once it has returned.
C9_HandleReleasedOnReturn ==
    \A t \in Threads :
        /\ Cardinality(handles[t]) <= 1
        /\ pc[t] \in {"open", "region", "slot", "done"} => loc[t].opened <= 1
        /\ pc[t] \in {"idle", "done"} => handles[t] = {}

\* C9 witness: a get_chunk call that opened its region file, found it
\* malformed and has returned None.
C9_Witness ==
    \E t \in Threads :
        /\ pc[t] = "done" /\ op[t] = "get_chunk"
        /\ loc[t].opened = 1 /\ loc[t].kind = "malformed"
        /\ ~ret[t].some

\* C4, as far as it holds: the same with "the slot is empty or does not
\* decode" read, for get_chunk_mtime, as "the slot has no timestamp".
C4_HoldsPerPath ==
    \A t \in Threads :
        /\ op[t] \in Lookups => pc[t] # "panicked"
        /\ (pc[t] = "done" /\ op[t] \in Lookups) =>
              /\ ~InIndex(rs[t], xz[t]) => (~ret[t].some /\ loc[t].opened = 0)
              /\ TargetKind(rs[t], xz[t]) \in {"absent", "malformed"} => ~ret[t].some
              /\ (op[t] = "get_chunk" /\ ~SlotDecodes(rs[t], xz[t])) => ~ret[t].some
              /\ (op[t] = "get_chunk_mtime" /\ ~SlotStamped(rs[t], xz[t])) => ~ret[t].some
              /\ (op[t] = "get_chunk" /\ ret[t].some) =>
                    /\ InIndex(rs[t], xz[t])
                    /\ SlotDecodes(rs[t], xz[t])

(***************************************************************************)
(* Specification SpecSplit: the split of one chunk coordinate and the      *)
(* slot arguments get_chunk and get_chunk_mtime make of it                 *)
(***************************************************************************)
InitSplit ==
    /\ cin \in [x : (0 - MaxC)..MaxC, z : (0 - MaxC)..MaxC]
    /\ cout = NotCalled
    /\ fs = Missing
    /\ rset = NotCalled
    /\ world = NotCalled
    /\ ThreadsIdle

\* lines 126 and 133 (153 and 160) on the coordinate cin
SplitCall ==
    /\ ~cout.called
    /\ cout' = Called([c |-> split(cin).c, r |-> split(cin).r, args |-> SlotArgs(cin)])
    /\ UNCHANGED <<cin, fs, rset, world, threadVars>>

NextSplit == SplitCall

SpecSplit == InitSplit /\ [][NextSplit]_vars

\* C2: on each axis the split gives region*32 + local = chunk with
\* 0 <= local < 32, negative chunks included, and the slot arguments
\* handed to the codec, after the cast to u8, are the local coordinates.
C2_SplitIsFloored ==
    cout.called =>
        LET c == cout.result.c
            r == cout.result.r
            a == cout.result.args
        IN  /\ r.x * 32 + c.x = cin.x /\ c.x \in 0..31
            /\ r.z * 32 + c.z = cin.z /\ c.z \in 0..31
            /\ a = <<c.x, c.z>>

\* C2 witness: chunk -1 splits into local 31 of region -1.
C2_Witness ==
    /\ cout.called
    /\ cin.x = -1
    /\ cout.result.c.x = 31 /\ cout.result.r.x = -1
    /\ cout.result.args[1] = 31

====
